---- MODULE Spec2Model ----
(***************************************************************************)
(* Route-optimization handlers of the delivery dashboard:                  *)
(*   POST /api/optimize-simple  (nearest-neighbor, app/api/optimize-simple)*)
(*   POST /api/optimize         (OAuth2 + Route Optimization API)          *)
(*                                                                         *)
(* Numbers.  Coordinates are integers in units of 1e-4 degree.  Distances  *)
(* are integers in decimetres (0.1 m), so that Math.round to whole metres  *)
(* is visible.  Money is in euro cents.  JavaScript's 0-based indexes are  *)
(* 1-based here, except shipmentIndex, which is data of the upstream       *)
(* service and stays 0-based.                                              *)
(***************************************************************************)
EXTENDS Integers, Sequences, FiniteSets, TLC

VARIABLES
  env,              \* process.env: which configuration values are set
  pc,               \* position of the handler
  body,             \* the parsed request body
  unvisited,        \* optimize-simple: stops not yet placed
  optimized,        \* optimize-simple: output stops placed so far
  currentLocation,  \* optimize-simple: where the tour currently is
  totalDistance,    \* optimize-simple: running total, decimetres
  signAttempts,     \* optimize: how often sign.sign was called
  tokenReply,       \* optimize: the answer of the token endpoint
  accessToken,      \* optimize: what getGoogleCloudAccessToken returned
  payload,          \* optimize: the optimizationPayload sent upstream
  netLog,           \* the network calls issued so far, in order
  response,         \* the HTTP response of the handler
  upstream,         \* optimize: the answer of the optimization endpoint
  clock,            \* optimize: what new Date() returned, once it was read
  earlier,          \* the response to an earlier request with the same body
  requests,         \* concurrent requests: the locals of each invocation
  geo,              \* geocode: the locals of the handler of /api/geocode
  link              \* generateCompleteRouteLink: arguments, locals, result

\* The variables of a single invocation of a handler.
handlerVars ==
  <<env, pc, body, unvisited, optimized, currentLocation, totalDistance,
    signAttempts, tokenReply, accessToken, payload, netLog, response,
    upstream, clock, earlier>>

\* The variables of the other parts of the model.
auxVars == <<requests, geo, link>>

vars == <<handlerVars, auxVars>>

-----------------------------------------------------------------------------
(* Bounds of the model *)

MaxStops == 3
MaxOptStops == 2
MaxVisits == 3
MaxRequests == 2
MaxAddresses == 2

\* The longest waypoint list passed to generateCompleteRouteLink.
MaxWaypoints == 19

-----------------------------------------------------------------------------
(* Values *)

\* An optional number that is not set (lat?: number, lng?: number).
undefined == -999999999

\* let nearestDistance = Infinity
Infinity == -1

\* !x for an optional number: undefined and 0 are both falsy.
Falsy(x) == x = undefined \/ x = 0

Loc(lat, lng) == [lat |-> lat, lng |-> lng]

\* body.warehouseLocation absent: warehouseLocation?.lat is undefined.
NoLocation == Loc(undefined, undefined)

Valladolid == Loc(416523, -47245)

\* Coordinates a stop of a request may carry.
StopCoords ==
  { Loc(0, 10000), Loc(0, 20000),
    Loc(20000, 10000), Loc(20000, 30000), Loc(30000, 20000),
    Loc(undefined, 10000), Loc(20000, undefined),
    Valladolid }

\* Depot locations a request may carry.
Depots == { NoLocation, Loc(0, 0), Loc(20000, 20000), Valladolid }

Delivery(i, c) == [codigo |-> i, lat |-> c.lat, lng |-> c.lng]

\* Stop lists of length n; the stop at position i has codigo i.
DeliveriesOfLen(S, n) ==
  { [i \in 1..n |-> Delivery(i, c[i])] : c \in [1..n -> S] }

Deliveries(S, max) == UNION { DeliveriesOfLen(S, n) : n \in 0..max }

\* Request bodies: deliveries missing, not an array, or an array.
Bodies(S, max) ==
  [deliveriesKind : {"missing", "notArray"}, deliveries : {<<>>},
   warehouseLocation : Depots]
  \cup
  [deliveriesKind : {"array"}, deliveries : Deliveries(S, max),
   warehouseLocation : Depots]

\* Math.round(n / d) for n >= 0, d > 0: halves round up.
MathRound(n, d) == (2 * n + d) \div (2 * d)

-----------------------------------------------------------------------------
(* calculateDistance: the haversine formula with R = 6371000 m.  The values *)
(* below are R * 2 * atan2(sqrt(a), sqrt(1 - a)) of the source, evaluated   *)
(* in IEEE doubles for the coordinates of StopCoords and Depots and given   *)
(* in decimetres.  The formula is symmetric and 0 on equal points.          *)

HaversinePairs ==
  { <<Loc(0, 0), Loc(0, 10000), 1111949>>,
    <<Loc(0, 0), Loc(0, 20000), 2223899>>,
    <<Loc(0, 0), Loc(20000, 10000), 2486293>>,
    <<Loc(0, 0), Loc(20000, 20000), 3144748>>,
    <<Loc(0, 0), Loc(20000, 30000), 4008626>>,
    <<Loc(0, 0), Loc(30000, 20000), 4008626>>,
    <<Loc(0, 0), Valladolid, 46558093>>,
    <<Loc(0, 10000), Loc(0, 20000), 1111949>>,
    <<Loc(0, 10000), Loc(20000, 10000), 2223899>>,
    <<Loc(0, 10000), Loc(20000, 20000), 2486293>>,
    <<Loc(0, 10000), Loc(20000, 30000), 3144748>>,
    <<Loc(0, 10000), Loc(30000, 20000), 3516132>>,
    <<Loc(0, 10000), Valladolid, 46671328>>,
    <<Loc(0, 20000), Loc(20000, 10000), 2486293>>,
    <<Loc(0, 20000), Loc(20000, 20000), 2223899>>,
    <<Loc(0, 20000), Loc(20000, 30000), 2486293>>,
    <<Loc(0, 20000), Loc(30000, 20000), 3335848>>,
    <<Loc(0, 20000), Valladolid, 46805868>>,
    <<Loc(20000, 10000), Loc(20000, 20000), 1111272>>,
    <<Loc(20000, 10000), Loc(20000, 30000), 2222544>>,
    <<Loc(20000, 10000), Loc(30000, 20000), 1571776>>,
    <<Loc(20000, 10000), Valladolid, 44461846>>,
    <<Loc(20000, 20000), Loc(20000, 30000), 1111272>>,
    <<Loc(20000, 20000), Loc(30000, 20000), 1111949>>,
    <<Loc(20000, 20000), Valladolid, 44601762>>,
    <<Loc(20000, 30000), Loc(30000, 20000), 1571776>>,
    <<Loc(20000, 30000), Valladolid, 44763591>>,
    <<Loc(30000, 20000), Valladolid, 43500332>> }

calculateDistance(from, to) ==
  IF from = to THEN 0
  ELSE LET e == CHOOSE p \in HaversinePairs :
                  \/ p[1] = from /\ p[2] = to
                  \/ p[1] = to /\ p[2] = from
       IN e[3]

-----------------------------------------------------------------------------
(* Configuration (process.env) *)

\* GOOGLE_SERVICE_ACCOUNT_CREDENTIALS: unset, not JSON, JSON without
\* client_email or private_key, complete with a key that cannot sign, complete.
CredentialStates == {"unset", "invalidJson", "missingFields", "badKey", "ok"}

Env(apiKey, projectId, credentials) ==
  [GOOGLE_MAPS_API_KEY |-> apiKey,
   GOOGLE_CLOUD_PROJECT_ID |-> projectId,
   GOOGLE_SERVICE_ACCOUNT_CREDENTIALS |-> credentials]

\* getGoogleMapsApiKey returns the key; it throws when the key is not set.
getGoogleMapsApiKeyThrows(e) == ~e.GOOGLE_MAPS_API_KEY

\* The catch block of both handlers.
InternalError(message) ==
  [status |-> 500, error |-> "Error al optimizar la ruta", details |-> message]

BadRequest(error) == [status |-> 400, error |-> error]

NoResponse == [status |-> 0]

\* data of the optimization endpoint before it has answered.
NoUpstream == [status |-> 0]

\* The response of the token endpoint before it has answered.
NoReply == [status |-> 0]

-----------------------------------------------------------------------------
(* POST /api/optimize-simple *)

\* body.deliveries.filter((d) => !d.lat || !d.lng)
deliveriesWithoutCoords(b) ==
  SelectSeq(b.deliveries, LAMBDA d : Falsy(d.lat) \/ Falsy(d.lng))

\* !body.warehouseLocation?.lat || !body.warehouseLocation?.lng
WarehouseMissing(b) ==
  Falsy(b.warehouseLocation.lat) \/ Falsy(b.warehouseLocation.lng)

\* Variant: the comparison written <=, so that a later stop at the same
\* distance replaces an earlier one.
IsNearerOrEqual(distance, nearestDistance) ==
  nearestDistance = Infinity \/ distance <= nearestDistance

\* distance < nearestDistance, nearestDistance starting at Infinity
IsNearer(distance, nearestDistance) ==
  nearestDistance = Infinity \/ distance < nearestDistance

\* The for loop over unvisited, from position i on.
RECURSIVE ScanNearest(_, _, _, _, _)
ScanNearest(unv, cur, i, nearestIndex, nearestDistance) ==
  IF i > Len(unv)
  THEN [nearestIndex |-> nearestIndex, nearestDistance |-> nearestDistance]
  ELSE LET delivery == unv[i]
           distance == calculateDistance(cur, Loc(delivery.lat, delivery.lng))
       IN IF IsNearer(distance, nearestDistance)
          THEN ScanNearest(unv, cur, i + 1, i, distance)
          ELSE ScanNearest(unv, cur, i + 1, nearestIndex, nearestDistance)

\* Variant: the distances of an iteration asked of a distance service.
DistanceRequestsRemote(log) == Append(log, "distancematrix")

\* The network calls of one iteration: calculateDistance is arithmetic on
\* the coordinates, computed in the handler, so there are none.
DistanceRequests(log) == log

\* Variant: unvisited = body.deliveries, the same array, so that splice
\* removes the stop from the input as well.
InputAliased(deliveries, unv) == unv

\* body.deliveries after unvisited.splice: unvisited = [...body.deliveries]
\* is a copy, so the input keeps its stops.
InputAfterSplice(deliveries, unv) == deliveries

\* Variant: splice(nearestIndex) without the count, which removes the rest.
SpliceToEnd(seq, i) == SubSeq(seq, 1, i - 1)

\* unvisited.splice(nearestIndex, 1)
Splice(seq, i) == SubSeq(seq, 1, i - 1) \o SubSeq(seq, i + 1, Len(seq))

\* orderIndex: optimized.length + 1
OrderIndex(opt) == Len(opt) + 1

\* { ...nextDelivery, orderIndex, distanceFromPrevious: Math.round(nearestDistance) }
OptimizedDelivery(d, orderIndex, nearestDistance) ==
  [codigo |-> d.codigo, lat |-> d.lat, lng |-> d.lng,
   orderIndex |-> orderIndex,
   distanceFromPrevious |-> MathRound(nearestDistance, 10)]

\* Variant: the return leg left out of the total.
NoReturnDistance(cur, warehouse) == 0

\* calculateDistance(currentLocation, body.warehouseLocation)
ReturnDistance(cur, warehouse) == calculateDistance(cur, warehouse)

\* optimized.length * 300
DeliveryTimePerStop == 300

\* Variant: the depot counted as a stop.
deliveryTimeSecondsWithDepot(opt) == (Len(opt) + 1) * DeliveryTimePerStop

deliveryTimeSeconds(opt) == Len(opt) * DeliveryTimePerStop

\* Variant: Math.floor in place of Math.round.
totalDurationFloor(total, deliveryTime) ==
  (3 * total + 250 * deliveryTime) \div 250

\* Math.round(travelTimeSeconds + deliveryTimeSeconds), where
\* travelTimeSeconds = (totalDistance / 1000 / 30) * 3600, that is 3/25 s per
\* metre and 3/250 s per decimetre.
totalDurationSeconds(total, deliveryTime) ==
  MathRound(3 * total + 250 * deliveryTime, 250)

\* Inputs <<decimetres, seconds>> whose cost is exactly halfway between two
\* cents in decimal, but whose double (m / 1000) * 1.0 + (s / 3600) * 0.5 lies
\* below the halfway point (1.005 is 1.00499999999999989...), so that
\* toFixed(2) gives the lower cent.  The table covers the inputs of Metrics;
\* the halfway costs the nearest-neighbor handler reaches (0.125) are doubles
\* that are exact, and toFixed takes the larger cent.
ToFixedBelowHalf == { <<10050, 0>>, <<150, 0>> }

\* calculateRouteCost: (m / 1000) * 1.0 + (s / 3600) * 0.5 euros, then
\* parseFloat(x.toFixed(2)), which rounds the double and not the decimal.
\* In cents: dm / 100 + s / 72 = q + (18 r + 25 s) / 1800, dm = 100 q + r.
calculateRouteCost(distanceDm, durationSeconds) ==
  LET q == distanceDm \div 100
      n == 18 * (distanceDm % 100) + 25 * durationSeconds
  IN IF <<distanceDm, durationSeconds>> \in ToFixedBelowHalf
     THEN q + (n \div 1800)
     ELSE q + MathRound(n, 1800)

\* Variant: the array declared outside the handler, so that it keeps the
\* stops of the request before.
RouteKept(previous) == previous

\* const optimized: OptimizedDelivery[] = [], a new array in every request
NewRoute(previous) == <<>>

\* Entry of the handler up to the start of the loop.
SimplePOST(b) ==
  /\ body' = b
  /\ UNCHANGED <<env, signAttempts, tokenReply, accessToken, payload, netLog,
                 upstream, clock>>
  /\ IF getGoogleMapsApiKeyThrows(env)
     THEN /\ response' = InternalError("GOOGLE_MAPS_API_KEY no esta configurada")
          /\ pc' = "done"
          /\ UNCHANGED <<unvisited, optimized, currentLocation, totalDistance>>
     ELSE IF b.deliveriesKind # "array" \/ Len(b.deliveries) = 0
     THEN /\ response' = BadRequest("Se requiere un array de entregas no vacio")
          /\ pc' = "done"
          /\ UNCHANGED <<unvisited, optimized, currentLocation, totalDistance>>
     ELSE IF Len(deliveriesWithoutCoords(b)) > 0
     THEN /\ response' = BadRequest("Todas las entregas deben tener coordenadas (lat, lng)")
          /\ pc' = "done"
          /\ UNCHANGED <<unvisited, optimized, currentLocation, totalDistance>>
     ELSE IF WarehouseMissing(b)
     THEN /\ response' = BadRequest("Se requiere la ubicacion del almacen")
          /\ pc' = "done"
          /\ UNCHANGED <<unvisited, optimized, currentLocation, totalDistance>>
     ELSE /\ unvisited' = b.deliveries
          /\ optimized' = NewRoute(optimized)
          /\ currentLocation' = b.warehouseLocation
          /\ totalDistance' = 0
          /\ pc' = "loop"
          /\ UNCHANGED response

\* One iteration of while (unvisited.length > 0).
SimpleIterate ==
  /\ pc = "loop"
  /\ Len(unvisited) > 0
  /\ LET nearest == ScanNearest(unvisited, currentLocation, 1, 1, Infinity)
         nextDelivery == unvisited[nearest.nearestIndex]
     IN /\ optimized' = Append(optimized,
             OptimizedDelivery(nextDelivery, OrderIndex(optimized),
                               nearest.nearestDistance))
        /\ totalDistance' = totalDistance + nearest.nearestDistance
        /\ currentLocation' = Loc(nextDelivery.lat, nextDelivery.lng)
        /\ unvisited' = Splice(unvisited, nearest.nearestIndex)
  /\ netLog' = DistanceRequests(netLog)
  /\ body' = [body EXCEPT !.deliveries = InputAfterSplice(body.deliveries, unvisited')]
  /\ UNCHANGED <<env, pc, signAttempts, tokenReply, accessToken, payload,
                 response, upstream, clock, earlier>>
  /\ UNCHANGED auxVars

\* After the loop: return leg, duration, cost, response.
SimpleFinish ==
  /\ pc = "loop"
  /\ Len(unvisited) = 0
  /\ LET returnDistance == ReturnDistance(currentLocation, body.warehouseLocation)
         total == totalDistance + returnDistance
         duration == totalDurationSeconds(total, deliveryTimeSeconds(optimized))
     IN /\ totalDistance' = total
        /\ response' =
             [status |-> 200,
              result |-> [optimizedDeliveries |-> optimized,
                          totalDistanceMeters |-> MathRound(total, 10),
                          totalDurationSeconds |-> duration,
                          estimatedCost |-> calculateRouteCost(total, duration)]]
  /\ pc' = "done"
  /\ UNCHANGED <<env, body, unvisited, optimized, currentLocation,
                 signAttempts, tokenReply, accessToken, payload, netLog,
                 upstream, clock, earlier>>
  /\ UNCHANGED auxVars

\* The locals of an invocation that has not started.
IdleRequest ==
  [kind |-> "none", pc |-> "idle",
   body |-> [deliveriesKind |-> "missing", deliveries |-> <<>>,
             warehouseLocation |-> NoLocation, startTime |-> undefined],
   unvisited |-> <<>>, optimized |-> <<>>, currentLocation |-> NoLocation,
   totalDistance |-> 0, tokenReply |-> NoReply, accessToken |-> "",
   authorization |-> "", upstream |-> NoUpstream, sent |-> <<>>,
   response |-> NoResponse]

\* The handler of /api/geocode before a request.
IdleGeocode ==
  [pc |-> "idle", addresses |-> <<>>, values |-> <<>>, outcomes |-> <<>>,
   dispatched |-> <<>>, completed |-> <<>>, response |-> NoResponse]

\* generateCompleteRouteLink before it is called.
IdleLink ==
  [pc |-> "idle", waypoints |-> <<>>, origin |-> NoLocation, i |-> 0,
   routes |-> <<>>, result |-> [isArray |-> FALSE, urls |-> <<>>]]

InitAux ==
  /\ requests = [r \in 1..MaxRequests |-> IdleRequest]
  /\ geo = IdleGeocode
  /\ link = IdleLink

InitCommon ==
  /\ InitAux
  /\ pc = "idle"
  /\ body = [deliveriesKind |-> "missing", deliveries |-> <<>>,
             warehouseLocation |-> NoLocation]
  /\ unvisited = <<>>
  /\ optimized = <<>>
  /\ currentLocation = NoLocation
  /\ totalDistance = 0
  /\ signAttempts = 0
  /\ tokenReply = NoReply
  /\ accessToken = ""
  /\ payload = <<>>
  /\ netLog = <<>>
  /\ response = NoResponse
  /\ upstream = NoUpstream
  /\ clock = undefined
  /\ earlier = NoResponse

InitSimple ==
  /\ env \in { Env(k, TRUE, "ok") : k \in BOOLEAN }
  /\ InitCommon

\* A request arrives while the handler is idle.
SimpleRequest ==
  /\ pc = "idle"
  /\ \E b \in Bodies(StopCoords, MaxStops) : SimplePOST(b)
  /\ UNCHANGED earlier
  /\ UNCHANGED auxVars

NextSimple ==
  \/ SimpleRequest
  \/ SimpleIterate
  \/ SimpleFinish

SpecSimple == InitSimple /\ [][NextSimple]_vars

\* The loop and the code after it are synchronous: once the handler has
\* entered the loop, each iteration and the final step are taken.
SpecSimpleFair ==
  SpecSimple /\ WF_vars(SimpleIterate) /\ WF_vars(SimpleFinish)

\* The same request sent once more after the first was answered; the first
\* response is kept for comparison.
SimpleRepeat ==
  /\ pc = "done"
  /\ earlier = NoResponse
  /\ earlier' = response
  /\ SimplePOST(body)
  /\ UNCHANGED auxVars

NextRepeat ==
  \/ SimpleRequest
  \/ SimpleIterate
  \/ SimpleFinish
  \/ SimpleRepeat

SpecRepeat == InitSimple /\ [][NextRepeat]_vars

-----------------------------------------------------------------------------
(* POST /api/optimize *)

\* Coordinates a stop of a request to /api/optimize may carry.
OptStopCoords ==
  { Loc(0, 10000), Loc(20000, 10000), Loc(20000, 30000), Loc(undefined, 10000) }

\* data.access_token of a successful token response: absent, empty, a token.
NoAccessToken == "undefined"

AccessTokens == { NoAccessToken, "", "ya29.token" }

ResponseOk(status) == 200 <= status /\ status <= 299

\* HTTP statuses of the token endpoint; response.ok is status 200..299.
TokenStatuses == { 200, 401, 503 }

\* Bodies of a non-success answer: the text, whether it is JSON, and whether
\* the JSON value is truthy.
Body(text, json, truthy) == [text |-> text, json |-> json, truthy |-> truthy]

JsonNull == Body("null", TRUE, FALSE)

ErrorBodies ==
  { Body("{\"error\":\"invalid_grant\"}", TRUE, TRUE),
    JsonNull,
    Body("<html>Service Unavailable</html>", FALSE, TRUE) }

\* await response.json().catch(() => null): the parsed value, null when the
\* text is not JSON.
ResponseJson(b) == IF b.json THEN b ELSE JsonNull

\* JSON.stringify(value): the text of the value.
JSONStringify(value) == value.text

\* What the token endpoint may answer.
TokenReplies ==
  [status : { st \in TokenStatuses : ResponseOk(st) }, access_token : AccessTokens]
  \cup
  [status : { st \in TokenStatuses : ~ResponseOk(st) }, body : ErrorBodies]

\* `Error al obtener access token: ${response.status} - ${JSON.stringify(error)}`
TokenErrorMessage(reply) ==
  [message |-> "Error al obtener access token",
   status |-> reply.status,
   body |-> JSONStringify(ResponseJson(reply.body))]

\* `HTTP ${response.status}`
HttpStatusText(status) == [text |-> "HTTP", status |-> status]

\* details: errorData || `HTTP ${response.status}`
UpstreamErrorDetails(b, status) ==
  LET errorData == ResponseJson(b)
  IN IF errorData.truthy THEN errorData ELSE HttpStatusText(status)

\* HTTP statuses of the optimization endpoint.
UpstreamStatuses == { 200, 400, 503 }

\* getGoogleCloudProjectId throws when the project id is not set.
getGoogleCloudProjectIdThrows(e) == ~e.GOOGLE_CLOUD_PROJECT_ID

\* Variant: client_email and private_key are not looked at.
credentialsUnsetOrNotJson(e) ==
  e.GOOGLE_SERVICE_ACCOUNT_CREDENTIALS \in {"unset", "invalidJson"}

\* getServiceAccountCredentials throws when the variable is not set, is not
\* JSON, or lacks client_email or private_key.
getServiceAccountCredentialsThrows(e) ==
  e.GOOGLE_SERVICE_ACCOUNT_CREDENTIALS \in {"unset", "invalidJson", "missingFields"}

\* Variant: a signature is produced whatever the key is.
createJWTNeverThrows(e) == FALSE

\* createJWT: sign.sign throws when the private key is not usable.
createJWTThrows(e) == e.GOOGLE_SERVICE_ACCOUNT_CREDENTIALS = "badKey"

\* A visit of the returned route: the 0-based shipmentIndex (undefined when
\* the field is absent) and its startTime, here the position in visits.
Visit(k, shipmentIndex) == [shipmentIndex |-> shipmentIndex, startTime |-> k]

VisitsOfLen(n) ==
  { [k \in 1..n |-> Visit(k, x[k])] :
      x \in [1..n -> {undefined} \cup (0..MaxOptStops)] }

\* data.metrics?.[0]: absent, or totalDistance (m) and totalDuration ("<N>s").
NoMetrics == [present |-> FALSE, totalDistance |-> 0, totalDuration |-> 0]

Metric(meters, seconds) ==
  [present |-> TRUE, totalDistance |-> meters, totalDuration |-> seconds]

Metrics == { NoMetrics, Metric(10000, 3600), Metric(1005, 0), Metric(15, 0),
             Metric(5, 0) }

\* What the optimization endpoint may answer.
UpstreamResponses ==
  [status : { st \in UpstreamStatuses : ~ResponseOk(st) }, body : ErrorBodies]
  \cup
  [status : {200}, routes : {"absent", "empty"}, visits : {<<>>},
   metrics : {NoMetrics}]
  \cup
  [status : {200}, routes : {"present"},
   visits : UNION { VisitsOfLen(n) : n \in 0..MaxVisits },
   metrics : Metrics]

\* Variant: shipmentIndex read as a 1-based position.
OriginalDeliveryOneBased(b, shipmentIndex) ==
  IF shipmentIndex \in 1..Len(b.deliveries)
  THEN b.deliveries[shipmentIndex]
  ELSE Delivery(undefined, NoLocation)

\* Variant: only !data.routes, without the test of the length.
RoutesAbsent(data) == data.routes = "absent"

\* !data.routes || data.routes.length === 0
NoRoutes(data) == data.routes # "present"

\* body.deliveries[visit.shipmentIndex]; undefined when out of range, and
\* spreading undefined adds no field.
OriginalDelivery(b, shipmentIndex) ==
  IF shipmentIndex + 1 \in 1..Len(b.deliveries)
  THEN b.deliveries[shipmentIndex + 1]
  ELSE Delivery(undefined, NoLocation)

\* Variant: no filter, every visit is mapped.
AllVisits(visits) == visits

\* visits.filter((visit) => visit.shipmentIndex !== undefined)
VisitsWithShipment(visits) ==
  SelectSeq(visits, LAMBDA v : v.shipmentIndex # undefined)

\* .map((visit, index) => ({ ...originalDelivery, orderIndex: index + 1,
\*                           estimatedArrival: visit.startTime }))
optimizedDeliveries(b, visits) ==
  LET kept == VisitsWithShipment(visits)
  IN [index \in 1..Len(kept) |->
        LET originalDelivery == OriginalDelivery(b, kept[index].shipmentIndex)
        IN [codigo |-> originalDelivery.codigo,
            lat |-> originalDelivery.lat,
            lng |-> originalDelivery.lng,
            orderIndex |-> index,
            estimatedArrival |-> kept[index].startTime]]

\* Instants are milliseconds since 1970-01-01T00:00:00.000Z.
\* new Date(s) of a string that is not a date: the time value is NaN, and
\* toISOString throws RangeError.
InvalidDate == -1

\* body.startTime: absent, not a date, or the instant the string denotes.
StartTimes == { undefined, InvalidDate, 1500, 86399999 }

\* Values new Date() may return.
ClockValues == { 3000, 7261999 }

\* body.startTime ? ... : ...  (a date string is not empty, so it is truthy)
StartTimeGiven(b) == b.startTime # undefined

WithStartTime(b, t) ==
  [deliveriesKind |-> b.deliveriesKind, deliveries |-> b.deliveries,
   warehouseLocation |-> b.warehouseLocation, startTime |-> t]

\* ROUTE_OPTIMIZATION_CONFIG.timeWindowHours
timeWindowHours == 8

\* new Date(startDate.getTime() + timeWindowHours * 60 * 60 * 1000)
endDate(startDate) == startDate + timeWindowHours * 60 * 60 * 1000

\* date.toISOString(): YYYY-MM-DDTHH:mm:ss.sssZ; day counts the days since
\* 1970-01-01.
toISOString(date) ==
  [day |-> date \div 86400000,
   hour |-> (date \div 3600000) % 24,
   minute |-> (date \div 60000) % 60,
   second |-> (date \div 1000) % 60,
   millisecond |-> date % 1000]

\* Variant: the instant rounded to the nearest second before formatting.
formatTimestampRounded(date) ==
  LET iso == toISOString(date + 500)
  IN [day |-> iso.day, hour |-> iso.hour, minute |-> iso.minute,
      second |-> iso.second]

\* date.toISOString().split('.')[0] + 'Z': the text from the '.' on, that is
\* the milliseconds, is cut off.
formatTimestamp(date) ==
  LET iso == toISOString(date)
  IN [day |-> iso.day, hour |-> iso.hour, minute |-> iso.minute,
      second |-> iso.second]

\* Variant: latitude and longitude exchanged.
ShipmentLngLat(delivery, startTime, endTime) ==
  [latitude |-> delivery.lng, longitude |-> delivery.lat,
   timeWindows |-> << [startTime |-> startTime, endTime |-> endTime] >>,
   label |-> delivery.codigo]

\* One element of shipments: the arrival waypoint, the time windows and the
\* label of a delivery.
Shipment(delivery, startTime, endTime) ==
  [latitude |-> delivery.lat, longitude |-> delivery.lng,
   timeWindows |-> << [startTime |-> startTime, endTime |-> endTime] >>,
   label |-> delivery.codigo]

\* optimizationPayload and the Authorization header it is sent with.
optimizationPayload(b, token, startTime, endTime) ==
  [shipments |-> [index \in 1..Len(b.deliveries) |->
                    Shipment(b.deliveries[index], startTime, endTime)],
   vehicles |-> << [startWaypoint |-> Loc(b.warehouseLocation.lat,
                                          b.warehouseLocation.lng),
                    endWaypoint |-> Loc(b.warehouseLocation.lat,
                                        b.warehouseLocation.lng)] >>,
   globalStartTime |-> startTime,
   globalEndTime |-> endTime,
   authorization |-> token]

\* Entry of the handler: project id, credentials, signed assertion, and the
\* token request sent.
OptimizePOST(b) ==
  /\ body' = b
  /\ UNCHANGED <<env, unvisited, optimized, currentLocation, totalDistance,
                 tokenReply, accessToken, payload, upstream, clock, earlier>>
  /\ IF getGoogleCloudProjectIdThrows(env)
     THEN /\ response' = InternalError("GOOGLE_CLOUD_PROJECT_ID no esta configurada")
          /\ pc' = "done"
          /\ UNCHANGED <<netLog, signAttempts>>
     ELSE IF getServiceAccountCredentialsThrows(env)
     THEN /\ response' = InternalError("GOOGLE_SERVICE_ACCOUNT_CREDENTIALS")
          /\ pc' = "done"
          /\ UNCHANGED <<netLog, signAttempts>>
     ELSE /\ signAttempts' = signAttempts + 1
          /\ IF createJWTThrows(env)
             THEN /\ response' = InternalError("sign")
                  /\ pc' = "done"
                  /\ UNCHANGED netLog
             ELSE /\ netLog' = Append(netLog, "token")
                  /\ pc' = "awaitToken"
                  /\ UNCHANGED response

\* The token endpoint answers; on success the body is validated, the payload
\* built and the optimization request sent.  now is what new Date() returns
\* if it is called.
OptimizeTokenResponse(reply, now) ==
  /\ tokenReply' = reply
  /\ UNCHANGED <<env, body, unvisited, optimized, currentLocation, totalDistance,
                 signAttempts, upstream, earlier>>
  /\ IF ~ResponseOk(reply.status)
     THEN /\ response' = InternalError(TokenErrorMessage(reply))
          /\ pc' = "done"
          /\ UNCHANGED <<accessToken, payload, netLog, clock>>
     ELSE /\ accessToken' = reply.access_token
          /\ IF body.deliveriesKind # "array"
             THEN /\ response' = BadRequest("Se requiere un array de entregas")
                  /\ pc' = "done"
                  /\ UNCHANGED <<payload, netLog, clock>>
             ELSE IF Len(body.deliveries) = 0
             THEN /\ response' = BadRequest("El array de entregas esta vacio")
                  /\ pc' = "done"
                  /\ UNCHANGED <<payload, netLog, clock>>
             ELSE IF Len(deliveriesWithoutCoords(body)) > 0
             THEN /\ response' = BadRequest("Todas las entregas deben tener coordenadas (lat, lng)")
                  /\ pc' = "done"
                  /\ UNCHANGED <<payload, netLog, clock>>
             ELSE IF WarehouseMissing(body)
             THEN /\ response' = BadRequest("Se requiere la ubicacion del almacen (warehouseLocation)")
                  /\ pc' = "done"
                  /\ UNCHANGED <<payload, netLog, clock>>
             ELSE LET startDate == IF StartTimeGiven(body)
                                   THEN body.startTime ELSE now
                  IN /\ clock' = IF StartTimeGiven(body) THEN clock ELSE now
                     /\ IF startDate = InvalidDate
                        THEN /\ response' = InternalError("Invalid time value")
                             /\ pc' = "done"
                             /\ UNCHANGED <<payload, netLog>>
                        ELSE /\ payload' = optimizationPayload(body, reply.access_token,
                                              formatTimestamp(startDate),
                                              formatTimestamp(endDate(startDate)))
                             /\ netLog' = Append(netLog, "optimize")
                             /\ pc' = "awaitOptimize"
                             /\ UNCHANGED response

\* The optimization endpoint answers; the response is mapped to the result.
OptimizeUpstreamResponse(data) ==
  /\ pc' = "done"
  /\ upstream' = data
  /\ UNCHANGED <<env, body, unvisited, optimized, currentLocation, totalDistance,
                 signAttempts, tokenReply, accessToken, payload, netLog, clock,
                 earlier>>
  /\ IF ~ResponseOk(data.status)
     THEN response' = [status |-> data.status,
                       error |-> "Error al optimizar la ruta con Google API",
                       details |-> UpstreamErrorDetails(data.body, data.status)]
     ELSE IF NoRoutes(data)
     THEN response' = [status |-> 500, error |-> "No se pudo optimizar la ruta",
                       details |-> "Google no devolvio ninguna ruta"]
     ELSE LET totalDistanceMeters == data.metrics.totalDistance
              duration == data.metrics.totalDuration
          IN response' =
               [status |-> 200,
                result |->
                  [optimizedDeliveries |-> optimizedDeliveries(body, data.visits),
                   totalDistanceMeters |-> totalDistanceMeters,
                   totalDurationSeconds |-> duration,
                   estimatedCost |->
                     calculateRouteCost(10 * totalDistanceMeters, duration)]]

InitOptimize ==
  /\ env \in { Env(TRUE, p, c) : p \in BOOLEAN, c \in CredentialStates }
  /\ InitCommon

\* A request arrives while the handler is idle.
OptimizeRequest ==
  /\ pc = "idle"
  /\ \E b \in Bodies(OptStopCoords, MaxOptStops), t \in StartTimes :
       OptimizePOST(WithStartTime(b, t))
  /\ UNCHANGED auxVars

\* await fetch(token endpoint) resumes with the endpoint's answer.
TokenExchange ==
  /\ pc = "awaitToken"
  /\ \E reply \in TokenReplies, now \in ClockValues :
       OptimizeTokenResponse(reply, now)
  /\ UNCHANGED auxVars

\* await fetch(optimization endpoint) resumes with the endpoint's answer.
UpstreamAnswer ==
  /\ pc = "awaitOptimize"
  /\ \E data \in UpstreamResponses : OptimizeUpstreamResponse(data)
  /\ UNCHANGED auxVars

NextOptimize ==
  \/ OptimizeRequest
  \/ TokenExchange
  \/ UpstreamAnswer

SpecOptimize == InitOptimize /\ [][NextOptimize]_vars

-----------------------------------------------------------------------------
(* Concurrent requests.  Every invocation of a handler has its own locals;   *)
(* the handlers of several requests interleave at their await points, and    *)
(* the nearest-neighbor loop is interleaved per iteration.  The modules hold *)
(* no variable that is written after load.                                   *)

RequestIds == 1..MaxRequests

\* A request of two stops which the nearest-neighbor tour reorders.
TwoStopBody ==
  [deliveriesKind |-> "array",
   deliveries |-> << Delivery(1, Loc(20000, 30000)),
                     Delivery(2, Loc(20000, 10000)) >>,
   warehouseLocation |-> Valladolid, startTime |-> 1500]

\* A request with an empty stop list.
EmptyBody ==
  [deliveriesKind |-> "array", deliveries |-> <<>>,
   warehouseLocation |-> Valladolid, startTime |-> 1500]

ConcurrentBodies == { TwoStopBody, EmptyBody }

ConcurrentTokenReplies ==
  { [status |-> 200, access_token |-> "ya29.a"],
    [status |-> 200, access_token |-> "ya29.b"],
    [status |-> 401, body |-> Body("{\"error\":\"invalid_grant\"}", TRUE, TRUE)] }

ConcurrentUpstreamResponses ==
  { [status |-> 200, routes |-> "present",
     visits |-> << Visit(1, 1), Visit(2, 0) >>,
     metrics |-> Metric(10000, 3600)],
    [status |-> 503, body |-> Body("<html>Service Unavailable</html>", FALSE, TRUE)] }

Finished(q, resp) == [q EXCEPT !.pc = "done", !.response = resp]

\* optimize-simple, from the entry to the start of the loop.
SimpleStarted(e, b) ==
  LET q == [IdleRequest EXCEPT !.kind = "simple", !.body = b]
  IN IF getGoogleMapsApiKeyThrows(e)
     THEN Finished(q, InternalError("GOOGLE_MAPS_API_KEY no esta configurada"))
     ELSE IF b.deliveriesKind # "array" \/ Len(b.deliveries) = 0
     THEN Finished(q, BadRequest("Se requiere un array de entregas no vacio"))
     ELSE IF Len(deliveriesWithoutCoords(b)) > 0
     THEN Finished(q, BadRequest("Todas las entregas deben tener coordenadas (lat, lng)"))
     ELSE IF WarehouseMissing(b)
     THEN Finished(q, BadRequest("Se requiere la ubicacion del almacen"))
     ELSE [q EXCEPT !.pc = "loop",
                    !.unvisited = b.deliveries,
                    !.optimized = NewRoute(q.optimized),
                    !.currentLocation = b.warehouseLocation,
                    !.totalDistance = 0]

\* optimize-simple, one iteration of the loop.
SimpleIterated(q) ==
  LET nearest == ScanNearest(q.unvisited, q.currentLocation, 1, 1, Infinity)
      nextDelivery == q.unvisited[nearest.nearestIndex]
  IN [q EXCEPT !.optimized = Append(q.optimized,
                   OptimizedDelivery(nextDelivery, OrderIndex(q.optimized),
                                     nearest.nearestDistance)),
               !.totalDistance = q.totalDistance + nearest.nearestDistance,
               !.currentLocation = Loc(nextDelivery.lat, nextDelivery.lng),
               !.unvisited = Splice(q.unvisited, nearest.nearestIndex)]

\* optimize-simple, after the loop.
SimpleFinished(q) ==
  LET total == q.totalDistance
                 + ReturnDistance(q.currentLocation, q.body.warehouseLocation)
      duration == totalDurationSeconds(total, deliveryTimeSeconds(q.optimized))
  IN Finished([q EXCEPT !.totalDistance = total],
              [status |-> 200,
               result |-> [optimizedDeliveries |-> q.optimized,
                           totalDistanceMeters |-> MathRound(total, 10),
                           totalDurationSeconds |-> duration,
                           estimatedCost |-> calculateRouteCost(total, duration)]])

\* optimize, from the entry to the token request.
OptimizeStarted(e, b) ==
  LET q == [IdleRequest EXCEPT !.kind = "optimize", !.body = b]
  IN IF getGoogleCloudProjectIdThrows(e)
     THEN Finished(q, InternalError("GOOGLE_CLOUD_PROJECT_ID no esta configurada"))
     ELSE IF getServiceAccountCredentialsThrows(e)
     THEN Finished(q, InternalError("GOOGLE_SERVICE_ACCOUNT_CREDENTIALS"))
     ELSE IF createJWTThrows(e)
     THEN Finished(q, InternalError("sign"))
     ELSE [q EXCEPT !.pc = "awaitToken", !.sent = <<"token">>]

\* Variant: the token of an earlier exchange of any request kept in a
\* variable of the module and used while there is one.
TokenFromCache(reqs, r, reply) ==
  IF \E x \in DOMAIN reqs : x # r /\ reqs[x].accessToken # ""
  THEN reqs[CHOOSE x \in DOMAIN reqs : x # r /\ reqs[x].accessToken # ""].accessToken
  ELSE reply.access_token

\* const accessToken = await getGoogleCloudAccessToken(): the token of the
\* exchange of this invocation.
TokenOfRequest(reqs, r, reply) == reply.access_token

\* optimize, from the answer of the token endpoint to the optimization
\* request; token is the accessToken of the invocation.
OptimizeTokenAnswered(q, reply, token) ==
  LET q1 == [q EXCEPT !.tokenReply = reply]
  IN IF ~ResponseOk(reply.status)
     THEN Finished(q1, InternalError(TokenErrorMessage(reply)))
     ELSE LET q2 == [q1 EXCEPT !.accessToken = token]
          IN IF q.body.deliveriesKind # "array"
             THEN Finished(q2, BadRequest("Se requiere un array de entregas"))
             ELSE IF Len(q.body.deliveries) = 0
             THEN Finished(q2, BadRequest("El array de entregas esta vacio"))
             ELSE IF Len(deliveriesWithoutCoords(q.body)) > 0
             THEN Finished(q2, BadRequest("Todas las entregas deben tener coordenadas (lat, lng)"))
             ELSE IF WarehouseMissing(q.body)
             THEN Finished(q2, BadRequest("Se requiere la ubicacion del almacen (warehouseLocation)"))
             ELSE [q2 EXCEPT !.pc = "awaitOptimize",
                             !.authorization = token,
                             !.sent = Append(q.sent, "optimize")]

\* optimize, from the answer of the optimization endpoint to the response.
OptimizeUpstreamAnswered(q, data) ==
  LET q1 == [q EXCEPT !.upstream = data]
  IN IF ~ResponseOk(data.status)
     THEN Finished(q1, [status |-> data.status,
                        error |-> "Error al optimizar la ruta con Google API",
                        details |-> UpstreamErrorDetails(data.body, data.status)])
     ELSE IF NoRoutes(data)
     THEN Finished(q1, [status |-> 500, error |-> "No se pudo optimizar la ruta",
                        details |-> "Google no devolvio ninguna ruta"])
     ELSE Finished(q1,
            [status |-> 200,
             result |->
               [optimizedDeliveries |-> optimizedDeliveries(q.body, data.visits),
                totalDistanceMeters |-> data.metrics.totalDistance,
                totalDurationSeconds |-> data.metrics.totalDuration,
                estimatedCost |->
                  calculateRouteCost(10 * data.metrics.totalDistance,
                                     data.metrics.totalDuration)]])

\* A request to /api/optimize-simple arrives.
ConcurrentSimpleRequest(r) ==
  /\ requests[r].pc = "idle"
  /\ \E b \in ConcurrentBodies :
       requests' = [requests EXCEPT ![r] = SimpleStarted(env, b)]
  /\ UNCHANGED <<handlerVars, geo, link>>

ConcurrentSimpleIterate(r) ==
  /\ requests[r].kind = "simple"
  /\ requests[r].pc = "loop"
  /\ Len(requests[r].unvisited) > 0
  /\ requests' = [requests EXCEPT ![r] = SimpleIterated(requests[r])]
  /\ UNCHANGED <<handlerVars, geo, link>>

ConcurrentSimpleFinish(r) ==
  /\ requests[r].kind = "simple"
  /\ requests[r].pc = "loop"
  /\ Len(requests[r].unvisited) = 0
  /\ requests' = [requests EXCEPT ![r] = SimpleFinished(requests[r])]
  /\ UNCHANGED <<handlerVars, geo, link>>

\* A request to /api/optimize arrives.
ConcurrentOptimizeRequest(r) ==
  /\ requests[r].pc = "idle"
  /\ \E b \in ConcurrentBodies :
       requests' = [requests EXCEPT ![r] = OptimizeStarted(env, b)]
  /\ UNCHANGED <<handlerVars, geo, link>>

ConcurrentTokenExchange(r) ==
  /\ requests[r].pc = "awaitToken"
  /\ \E reply \in ConcurrentTokenReplies :
       requests' = [requests EXCEPT ![r] =
                      OptimizeTokenAnswered(requests[r], reply,
                                            TokenOfRequest(requests, r, reply))]
  /\ UNCHANGED <<handlerVars, geo, link>>

ConcurrentUpstreamAnswer(r) ==
  /\ requests[r].pc = "awaitOptimize"
  /\ \E data \in ConcurrentUpstreamResponses :
       requests' = [requests EXCEPT ![r] =
                      OptimizeUpstreamAnswered(requests[r], data)]
  /\ UNCHANGED <<handlerVars, geo, link>>

InitConcurrent ==
  /\ env = Env(TRUE, TRUE, "ok")
  /\ InitCommon

NextConcurrent ==
  \E r \in RequestIds :
    \/ ConcurrentSimpleRequest(r)
    \/ ConcurrentSimpleIterate(r)
    \/ ConcurrentSimpleFinish(r)
    \/ ConcurrentOptimizeRequest(r)
    \/ ConcurrentTokenExchange(r)
    \/ ConcurrentUpstreamAnswer(r)

SpecConcurrent == InitConcurrent /\ [][NextConcurrent]_vars

-----------------------------------------------------------------------------
(* POST /api/geocode *)

\* An element of body.addresses: a string with its text, the text trimmed
\* and whether it names the country, or a value that is not a string.
Address(kind, text, trimmed, hasCountry) ==
  [kind |-> kind, text |-> text, trimmed |-> trimmed, hasCountry |-> hasCountry]

AddressValues ==
  { Address("string", "Calle Mayor 1", "Calle Mayor 1", FALSE),
    Address("string", " Gran Via 2, Spain ", "Gran Via 2, Spain", TRUE),
    Address("string", "", "", FALSE),
    Address("string", "   ", "", FALSE),
    Address("number", "42", "42", FALSE) }

AddressesOfLen(n) == [1..n -> AddressValues]

\* body.addresses: missing, not an array, or an array.
GeocodeBodies ==
  [addressesKind : {"missing", "notArray"}, addresses : {<<>>}]
  \cup
  [addressesKind : {"array"},
   addresses : UNION { AddressesOfLen(n) : n \in 0..MaxAddresses }]

\* address.trim of a value that is not a string is not a function.
isValidAddressThrows(address) == address.kind # "string"

\* Boolean(address && address.trim().length > 0)
isValidAddress(address) == address.text # "" /\ address.trimmed # ""

\* formatAddressForSpain: the trimmed text, followed by ", Espana" unless it
\* names the country.
formatAddressForSpain(address) ==
  [text |-> address.trimmed,
   suffix |-> IF address.hasCountry THEN "" ELSE ", Espana"]

\* A field that is undefined, which JSON leaves out.
Absent == "undefined"

\* !x of an optional string
FalsyString(x) == x = Absent \/ x = ""

\* What a lookup may end in: a result with coordinates, an HTTP error, a
\* status other than OK (detail is data.status), an exception (detail is
\* error.message).
Outcome(kind, lat, lng, detail) ==
  [kind |-> kind, lat |-> lat, lng |-> lng, detail |-> detail]

LookupOutcomes ==
  { Outcome("ok", 416523, -47245, "OK"),
    Outcome("ok", 404168, -37038, "OK"),
    Outcome("http", 0, 0, "Error HTTP 503"),
    Outcome("status", 0, 0, "ZERO_RESULTS"),
    Outcome("status", 0, 0, Absent),
    Outcome("throws", 0, 0, "fetch failed"),
    Outcome("throws", 0, 0, "") }

\* A promise of Promise.all that has not settled.
Pending == [pending |-> TRUE]

\* The entry for an address that is not valid.
InvalidEntry(address) ==
  [address |-> address, formattedAddress |-> [text |-> "", suffix |-> ""],
   lat |-> 0, lng |-> 0, error |-> "Direccion vacia o invalida"]

\* let errorMessage = data.status, replaced for the statuses that are known
ErrorMessage(status) ==
  IF status = "ZERO_RESULTS" THEN "No se encontro la direccion" ELSE status

\* The entry the callback returns for a valid address after its fetch.
LookupEntry(address, outcome) ==
  IF outcome.kind = "ok"
  THEN [address |-> address,
        formattedAddress |-> [text |-> "formatted_address", suffix |-> ""],
        lat |-> outcome.lat, lng |-> outcome.lng, error |-> Absent]
  ELSE [address |-> address,
        formattedAddress |-> formatAddressForSpain(address),
        lat |-> 0, lng |-> 0,
        error |-> IF outcome.kind = "status" THEN ErrorMessage(outcome.detail)
                  ELSE outcome.detail]

\* Variant: the value of a promise put at the first place that is free.
StoreInCompletionOrder(values, i, entry) ==
  LET first == CHOOSE k \in DOMAIN values :
                 /\ values[k] = Pending
                 /\ \A j \in DOMAIN values : values[j] = Pending => k <= j
  IN [values EXCEPT ![first] = entry]

\* Promise.all puts the value of the i-th promise at position i.
PromiseAllStore(values, i, entry) == [values EXCEPT ![i] = entry]

\* geocodedAddresses.filter((addr) => !addr.error).length
successful(entries) ==
  Cardinality({ i \in DOMAIN entries : FalsyString(entries[i].error) })

\* The catch block of the handler.
GeocodeError(message) ==
  [status |-> 500, error |-> "Error al procesar las direcciones",
   details |-> message]

\* Entry of the handler up to await Promise.all: the callback of map runs
\* for every address up to its first await, so every fetch is sent before
\* any of them is answered.
GeocodePOST(accessOk, b) ==
  LET done(resp) == [geo EXCEPT !.pc = "done", !.response = resp]
      n == Len(b.addresses)
  IN IF ~accessOk
     THEN geo' = done([status |-> 401, error |-> "Codigo de acceso invalido"])
     ELSE IF getGoogleMapsApiKeyThrows(env)
     THEN geo' = done(GeocodeError("GOOGLE_MAPS_API_KEY no esta configurada"))
     ELSE IF b.addressesKind # "array"
     THEN geo' = done(BadRequest("Se requiere un array de direcciones"))
     ELSE IF n = 0
     THEN geo' = done(BadRequest("El array de direcciones esta vacio"))
     ELSE LET valid(i) == /\ ~isValidAddressThrows(b.addresses[i])
                          /\ isValidAddress(b.addresses[i])
              sent == SelectSeq([i \in 1..n |-> i], valid)
              values == [i \in 1..n |->
                           IF isValidAddressThrows(b.addresses[i]) \/ valid(i)
                           THEN Pending
                           ELSE InvalidEntry(b.addresses[i])]
              started == [geo EXCEPT !.addresses = b.addresses,
                                     !.values = values,
                                     !.outcomes = [i \in 1..n |-> Pending],
                                     !.dispatched = sent]
          IN IF \E i \in 1..n : isValidAddressThrows(b.addresses[i])
             THEN geo' = [started EXCEPT
                            !.pc = "done",
                            !.response = GeocodeError("address.trim is not a function")]
             ELSE geo' = [started EXCEPT !.pc = "awaiting"]

\* The fetch of address i is answered, or fails, and the callback returns.
GeocodeLookupSettles(i, outcome) ==
  /\ geo.values[i] = Pending
  /\ geo' = [geo EXCEPT
               !.outcomes[i] = outcome,
               !.completed = Append(geo.completed, i),
               !.values = PromiseAllStore(geo.values, i,
                                          LookupEntry(geo.addresses[i], outcome))]

\* Promise.all is fulfilled; the summary is counted and the response sent.
GeocodeRespond ==
  /\ geo.pc = "awaiting"
  /\ \A i \in DOMAIN geo.values : geo.values[i] # Pending
  /\ LET geocodedAddresses == geo.values
         ok == successful(geocodedAddresses)
     IN geo' = [geo EXCEPT
                  !.pc = "done",
                  !.response =
                    [status |-> 200,
                     results |-> geocodedAddresses,
                     summary |-> [total |-> Len(geocodedAddresses),
                                  successful |-> ok,
                                  failed |-> Len(geocodedAddresses) - ok]]]
  /\ UNCHANGED <<handlerVars, requests, link>>

\* A request arrives while the handler is idle.
GeocodeRequest ==
  /\ geo.pc = "idle"
  /\ \E accessOk \in BOOLEAN, b \in GeocodeBodies : GeocodePOST(accessOk, b)
  /\ UNCHANGED <<handlerVars, requests, link>>

\* One of the lookups in flight settles.
GeocodeLookup ==
  /\ geo.pc = "awaiting"
  /\ \E i \in DOMAIN geo.values, outcome \in LookupOutcomes :
       GeocodeLookupSettles(i, outcome)
  /\ UNCHANGED <<handlerVars, requests, link>>

InitGeocode ==
  /\ env \in { Env(k, TRUE, "ok") : k \in BOOLEAN }
  /\ InitCommon

NextGeocode ==
  \/ GeocodeRequest
  \/ GeocodeLookup
  \/ GeocodeRespond

SpecGeocode == InitGeocode /\ [][NextGeocode]_vars

\* The caller: entregas.map((entrega, index) => ({ ...entrega,
\*   lat: results[index].lat, lng: results[index].lng,
\*   direccionCompleta: results[index].formattedAddress }))
deliveriesWithCoords(n, results) ==
  [index \in 1..n |->
     [entrega |-> index,
      lat |-> results[index].lat,
      lng |-> results[index].lng,
      direccionCompleta |-> results[index].formattedAddress]]

-----------------------------------------------------------------------------
(* generateCompleteRouteLink(waypoints, originLat, originLng).  A URL is     *)
(* modelled by its query parameters: origin, destination, the list that is   *)
(* joined with '|' into waypoints, and travelmode.  A parameter the URL does *)
(* not have is <<>> (origin, waypoints) or FALSE (travelmode).               *)

MAX_WAYPOINTS == 9

\* `${lat},${lng}`: the text of a number is one-to-one on the numbers used
\* here, so the text of a pair is given by the pair of numbers.
LatLngText(wp) == <<wp.lat, wp.lng>>

\* Array.prototype.slice(from, to) for 0 <= from <= to, 0-based.
Slice(seq, from, to) ==
  SubSeq(seq, from + 1, IF to < Len(seq) THEN to ELSE Len(seq))

\* Array.prototype.slice(0, -1): all but the last.
AllButLast(seq) == SubSeq(seq, 1, Len(seq) - 1)

\* .map((wp) => `${wp.lat},${wp.lng}`), before .join('|')
WaypointsStr(seq) == [k \in 1..Len(seq) |-> LatLngText(seq[k])]

Url(origin, destination, waypointsStr, travelmode) ==
  [origin |-> origin, destination |-> destination,
   waypoints |-> waypointsStr, travelmode |-> travelmode]

\* The three returns of a single URL: no waypoint, one waypoint, 2 to
\* MAX_WAYPOINTS waypoints.
SingleRouteLink(waypoints, origin) ==
  IF Len(waypoints) = 0
  THEN Url(<<>>, LatLngText(origin), <<>>, FALSE)
  ELSE IF Len(waypoints) = 1
  THEN Url(LatLngText(origin), LatLngText(origin),
           WaypointsStr(waypoints), TRUE)
  ELSE Url(LatLngText(origin), LatLngText(waypoints[Len(waypoints)]),
           WaypointsStr(AllButLast(waypoints)), TRUE)

\* Variant: a later chunk starts at its own first waypoint.
ChunkOriginOwnFirst(waypoints, i, origin) ==
  IF i = 0 THEN LatLngText(origin) ELSE LatLngText(waypoints[i + 1])

\* isFirstChunk ? `${originLat},${originLng}`
\*              : `${waypoints[i - 1].lat},${waypoints[i - 1].lng}`
ChunkOrigin(waypoints, i, origin) ==
  IF i = 0 THEN LatLngText(origin) ELSE LatLngText(waypoints[(i - 1) + 1])

\* The URL pushed by the loop iteration that starts at index i.
ChunkUrl(waypoints, i, origin) ==
  LET chunk == Slice(waypoints, i, i + MAX_WAYPOINTS)
      destination == chunk[Len(chunk)]
      intermediateWaypoints == AllButLast(chunk)
  IN Url(ChunkOrigin(waypoints, i, origin), LatLngText(destination),
         WaypointsStr(intermediateWaypoints), TRUE)

\* Waypoint lists of length n: all stops at one place (period 1), two
\* places in alternation (period 2), or stops that all differ.
WaypointsOfLen(n, period) ==
  [k \in 1..n |-> Loc(410000 + 100 * (k % period), -47000 - (k % period))]

WaypointPeriods == {1, 2, MaxWaypoints + 1}

LinkOrigins == {Valladolid, Loc(0, 0)}

\* The call, up to the return of a single URL or the entry of the loop.
GenerateLinkCall ==
  /\ link.pc = "idle"
  /\ \E n \in 0..MaxWaypoints, period \in WaypointPeriods,
        origin \in LinkOrigins :
       LET waypoints == WaypointsOfLen(n, period)
       IN IF Len(waypoints) <= MAX_WAYPOINTS
          THEN link' = [link EXCEPT
                 !.pc = "returned", !.waypoints = waypoints,
                 !.origin = origin,
                 !.result = [isArray |-> FALSE,
                             urls |-> <<SingleRouteLink(waypoints, origin)>>]]
          ELSE link' = [link EXCEPT
                 !.pc = "loop", !.waypoints = waypoints, !.origin = origin,
                 !.i = 0, !.routes = <<>>]
  /\ UNCHANGED <<handlerVars, requests, geo>>

\* One iteration of for (i = 0; i < waypoints.length; i += MAX_WAYPOINTS).
\* The chunk is never empty, since i < waypoints.length.
GenerateLinkChunk ==
  /\ link.pc = "loop"
  /\ link.i < Len(link.waypoints)
  /\ link' = [link EXCEPT
       !.routes = Append(@, ChunkUrl(link.waypoints, link.i, link.origin)),
       !.i = @ + MAX_WAYPOINTS]
  /\ UNCHANGED <<handlerVars, requests, geo>>

\* return routes
GenerateLinkReturn ==
  /\ link.pc = "loop"
  /\ link.i >= Len(link.waypoints)
  /\ link' = [link EXCEPT
       !.pc = "returned",
       !.result = [isArray |-> TRUE, urls |-> link.routes]]
  /\ UNCHANGED <<handlerVars, requests, geo>>

InitLink ==
  /\ env = Env(TRUE, TRUE, "ok")
  /\ InitCommon

NextLink ==
  \/ GenerateLinkCall
  \/ GenerateLinkChunk
  \/ GenerateLinkReturn

SpecLink == InitLink /\ [][NextLink]_vars

-----------------------------------------------------------------------------
(* Properties of POST /api/optimize-simple, checked under SpecSimple *)

SimpleDone == pc = "done"

SimpleSucceeded == pc = "done" /\ response.status = 200

\* A stop without coordinates: lat or lng not set.
LacksCoordinates(d) == d.lat = undefined \/ d.lng = undefined

\* C3: a request whose stop list is empty or not an array, one of whose
\* stops has no coordinates, or whose depot location is missing, ends in
\* HTTP 400 with no route computed and no network call, whatever the
\* environment is.
C3_InvalidRequestIs400 ==
  (/\ SimpleDone
   /\ \/ body.deliveriesKind # "array"
      \/ Len(body.deliveries) = 0
      \/ \E i \in 1..Len(body.deliveries) : LacksCoordinates(body.deliveries[i])
      \/ body.warehouseLocation = NoLocation)
  => (response.status = 400 /\ optimized = <<>> /\ netLog = <<>>)

\* C4: a successful response on N input stops has exactly N output stops,
\* every input stop appears exactly once among them, and the orderIndex of
\* the i-th output stop is i.
C4_OutputIsPermutation ==
  SimpleSucceeded =>
    LET out == response.result.optimizedDeliveries
        N == Len(body.deliveries)
    IN /\ Len(out) = N
       /\ \A i \in 1..Len(out) : out[i].orderIndex = i
       /\ \A j \in 1..N :
            Cardinality({ i \in 1..Len(out) :
              Delivery(out[i].codigo, out[i]) = body.deliveries[j] }) = 1

\* C4 witness: a three-stop request answered with a route that does not
\* start with the first input stop.
C4_Witness ==
  /\ SimpleSucceeded
  /\ Len(body.deliveries) = 3
  /\ response.result.optimizedDeliveries[1].codigo # 1

C7_Body ==
  [deliveriesKind |-> "array",
   deliveries |-> << Delivery(1, Loc(0, 10000)), Delivery(2, Loc(0, 20000)) >>,
   warehouseLocation |-> Loc(0, 0)]

\* C7: with depot (0,0), A at (0,1) and B at (0,2), and the API key
\* configured, the handler returns A with orderIndex 1 and B with orderIndex 2.
C7_AThenB ==
  (SimpleDone /\ env.GOOGLE_MAPS_API_KEY /\ body = C7_Body)
  => /\ response.status = 200
     /\ Len(response.result.optimizedDeliveries) = 2
     /\ response.result.optimizedDeliveries[1].codigo = 1
     /\ response.result.optimizedDeliveries[1].orderIndex = 1
     /\ response.result.optimizedDeliveries[2].codigo = 2
     /\ response.result.optimizedDeliveries[2].orderIndex = 2

\* The request of C8: depot and the single stop at (41.6523, -4.7245).
C8_Body ==
  [deliveriesKind |-> "array",
   deliveries |-> << Delivery(1, Valladolid) >>,
   warehouseLocation |-> Valladolid]

\* C8: with the depot and a single stop both at (41.6523, -4.7245), and the
\* API key configured, the handler returns totalDistanceMeters 0,
\* distanceFromPrevious 0 for the stop, and totalDurationSeconds 300.
C8_SameCoordinates ==
  (SimpleDone /\ env.GOOGLE_MAPS_API_KEY /\ body = C8_Body)
  => /\ response.status = 200
     /\ response.result.totalDistanceMeters = 0
     /\ Len(response.result.optimizedDeliveries) = 1
     /\ response.result.optimizedDeliveries[1].distanceFromPrevious = 0
     /\ response.result.totalDurationSeconds = 300

\* C8 witness: that request has been answered with a route.
C8_Witness == SimpleSucceeded /\ body = C8_Body

\* Location of output stop i of a route; position 0 is the depot.
RouteLoc(out, depot, i) ==
  IF i = 0 THEN depot ELSE Loc(out[i].lat, out[i].lng)

\* Length of the leg that reaches output stop i.
Leg(out, depot, i) ==
  calculateDistance(RouteLoc(out, depot, i - 1), RouteLoc(out, depot, i))

RECURSIVE SumLegs(_, _, _)
SumLegs(out, depot, n) ==
  IF n = 0 THEN 0 ELSE SumLegs(out, depot, n - 1) + Leg(out, depot, n)

\* m is x decimetres rounded to the nearest metre, halves up.
IsRoundedMetres(m, x) == 10 * m - 5 <= x /\ x < 10 * m + 5

\* C9: the total distance is the sum of the legs depot -> first stop -> ...
\* -> last stop plus the return leg last stop -> depot; the return leg has
\* no output stop; each distanceFromPrevious is the leg that reached the
\* stop, rounded to the nearest metre; totalDistanceMeters is the total
\* rounded to the nearest metre.
C9_TotalIsLegsPlusReturn ==
  SimpleSucceeded =>
    LET out == response.result.optimizedDeliveries
        depot == body.warehouseLocation
        N == Len(out)
    IN /\ totalDistance
            = SumLegs(out, depot, N)
              + calculateDistance(RouteLoc(out, depot, N), depot)
       /\ N = Len(body.deliveries)
       /\ \A i \in 1..N :
            IsRoundedMetres(out[i].distanceFromPrevious, Leg(out, depot, i))
       /\ IsRoundedMetres(response.result.totalDistanceMeters, totalDistance)

\* C9 witness: a route of two stops with a return leg of positive
\* length, whose rounded total differs from the sum of its rounded legs.
C9_Witness ==
  /\ SimpleSucceeded
  /\ LET out == response.result.optimizedDeliveries
         depot == body.warehouseLocation
         N == Len(out)
     IN /\ N = 2
        /\ calculateDistance(RouteLoc(out, depot, N), depot) > 0
        /\ response.result.totalDistanceMeters
             # out[1].distanceFromPrevious + out[2].distanceFromPrevious
               + MathRound(calculateDistance(RouteLoc(out, depot, N), depot), 10)

\* C10: totalDurationSeconds is the travel time of the total distance at
\* 30 km/h (3/250 s per decimetre) plus 300 s for each of the N output
\* stops, rounded once to the nearest second:
\*   d - 1/2 <= 3 * total / 250 + 300 * N < d + 1/2.
C10_DurationRoundedOnce ==
  SimpleSucceeded =>
    LET d == response.result.totalDurationSeconds
        N == Len(response.result.optimizedDeliveries)
        x250 == 3 * totalDistance + 250 * 300 * N
    IN 250 * d - 125 <= x250 /\ x250 < 250 * d + 125

\* C10 witness: a route of two or more stops whose travel time has a
\* fractional part of at least half a second, so that rounding goes up.
C10_Witness ==
  /\ SimpleSucceeded
  /\ Len(response.result.optimizedDeliveries) >= 2
  /\ (3 * totalDistance) % 250 >= 125

C27_RejectedIffCoordinatesUnset ==
  (/\ SimpleDone
   /\ env.GOOGLE_MAPS_API_KEY
   /\ body.deliveriesKind = "array"
   /\ Len(body.deliveries) > 0)
  => (response.status = 400
        <=> \/ \E i \in 1..Len(body.deliveries) :
                 LacksCoordinates(body.deliveries[i])
            \/ LacksCoordinates(body.warehouseLocation))

\* C28: the loop ends after exactly N iterations for N input stops: at
\* every iteration boundary unvisited and output together have N stops,
\* each iteration moves exactly one stop from unvisited to the output, the
\* running total never decreases, the input stop list is left as it was,
\* and the loop is left with N output stops.
C28_LoopInvariant ==
  /\ [](pc = "loop" =>
          Len(unvisited) + Len(optimized) = Len(body.deliveries))
  /\ [][ (pc = "loop" /\ pc' = "loop") =>
           /\ Len(optimized') = Len(optimized) + 1
           /\ Len(unvisited') = Len(unvisited) - 1
           /\ \E k \in 1..Len(unvisited) :
                /\ unvisited' = SubSeq(unvisited, 1, k - 1)
                                  \o SubSeq(unvisited, k + 1, Len(unvisited))
                /\ Delivery(optimized'[Len(optimized')].codigo,
                            optimized'[Len(optimized')]) = unvisited[k]
           /\ SubSeq(optimized', 1, Len(optimized)) = optimized
           /\ totalDistance' >= totalDistance
           /\ body' = body ]_vars
  /\ [][ (pc = "loop" /\ pc' = "done") =>
           /\ Len(optimized) = Len(body.deliveries)
           /\ totalDistance' >= totalDistance
           /\ body' = body ]_vars
  /\ (pc = "loop" ~> pc = "done")

\* C28 witness: the loop was left after three iterations on three stops.
C28_Witness ==
  /\ SimpleSucceeded
  /\ Len(body.deliveries) = 3
  /\ Len(optimized) = 3
  /\ unvisited = <<>>
  /\ totalDistance > 0

\* C14: the handler has no failure mode other than input validation: every
\* request with a non-empty stop list, coordinates on every stop and a
\* depot is answered with a route, whatever the configuration is.
C14_ValidRequestSucceeds ==
  (/\ SimpleDone
   /\ body.deliveriesKind = "array"
   /\ Len(body.deliveries) > 0
   /\ \A i \in 1..Len(body.deliveries) : ~LacksCoordinates(body.deliveries[i])
   /\ body.warehouseLocation # NoLocation)
  => response.status = 200

-----------------------------------------------------------------------------
(* Properties of POST /api/optimize, checked under SpecOptimize *)

OptimizeDone == pc = "done"

Configured ==
  /\ env.GOOGLE_CLOUD_PROJECT_ID
  /\ env.GOOGLE_SERVICE_ACCOUNT_CREDENTIALS = "ok"

IsPrefix(s, t) == Len(s) <= Len(t) /\ s = SubSeq(t, 1, Len(s))

\* C1: the token request strictly precedes the optimization request, the
\* optimization request is issued only after the token exchange yielded a
\* present, non-empty access token, and at most three network calls are
\* issued, one after the other.
C1_TokenBeforeOptimize ==
  /\ IsPrefix(netLog, <<"token", "optimize">>)
  /\ Len(netLog) <= 3
  /\ (\E i \in 1..Len(netLog) : netLog[i] = "optimize")
       => (accessToken # NoAccessToken /\ accessToken # "")

\* C2: with the configuration in place, a request whose stop list is empty,
\* one of whose stops has no coordinates, or whose depot location is
\* missing, ends in a validation error and no network call was issued.
C2_InvalidRequestNoNetwork ==
  (/\ OptimizeDone
   /\ Configured
   /\ body.deliveriesKind = "array"
   /\ \/ Len(body.deliveries) = 0
      \/ \E i \in 1..Len(body.deliveries) : LacksCoordinates(body.deliveries[i])
      \/ body.warehouseLocation = NoLocation)
  => (response.status = 400 /\ netLog = <<>>)

\* C5: every successful response on N input stops has exactly N output
\* stops whose orderIndex values are a permutation of 1..N.
C5_OutputHasAllStops ==
  (OptimizeDone /\ response.status = 200) =>
    LET out == response.result.optimizedDeliveries
        N == Len(body.deliveries)
    IN /\ Len(out) = N
       /\ { out[i].orderIndex : i \in 1..Len(out) } = 1..N

\* The cost formula in exact arithmetic, in cents, halves rounded up:
\* m / 10 + s / 72 cents for m metres and s seconds.
HalfUpCents(meters, seconds) == MathRound(180 * meters + 25 * seconds, 1800)

\* C11: estimatedCost is (distance / 1000) * 1.0 + (duration / 3600) * 0.5
\* euros rounded half-up to two decimals, for every total distance and total
\* duration the route carries; in particular 10.50 for 10000 m and 3600 s.
C11_CostIsHalfUp ==
  (OptimizeDone /\ response.status = 200) =>
    response.result.estimatedCost
      = HalfUpCents(response.result.totalDistanceMeters,
                    response.result.totalDurationSeconds)

OptimizeSucceeded == pc = "done" /\ response.status = 200

\* Positions of the visits of the first route that carry a shipmentIndex.
VisitPositions ==
  { k \in 1..Len(upstream.visits) : upstream.visits[k].shipmentIndex # undefined }

\* C15: the number of output stops equals the number of visits of the first
\* route that carry a shipmentIndex; the visits without one are left out;
\* the i-th output stop comes from the i-th such visit and has orderIndex i,
\* so the orderIndex values are exactly 1..N without duplicates.
C15_OrderIndexAmongVisits ==
  OptimizeSucceeded =>
    LET out == response.result.optimizedDeliveries
    IN /\ Len(out) = Cardinality(VisitPositions)
       /\ \A i \in 1..Len(out) :
            /\ out[i].orderIndex = i
            /\ out[i].estimatedArrival \in VisitPositions
            /\ Cardinality({ k \in VisitPositions :
                               k <= out[i].estimatedArrival }) = i

\* C26: for every upstream response, each output stop carries exactly the
\* fields of the input stop at the position its visit's shipmentIndex gives
\* (plus orderIndex and the arrival time of the visit); no output stop
\* corresponds to no input stop.
C26_OutputStopsAreInputStops ==
  OptimizeSucceeded =>
    LET out == response.result.optimizedDeliveries
        N == Len(body.deliveries)
    IN \A i \in 1..Len(out) :
         LET visit == upstream.visits[out[i].estimatedArrival]
         IN /\ visit.shipmentIndex \in 0..(N - 1)
            /\ Delivery(out[i].codigo, out[i])
                 = body.deliveries[visit.shipmentIndex + 1]

\* C15 witness: three visits, the second without shipmentIndex, mapped to
\* two output stops.
C15_Witness ==
  /\ OptimizeSucceeded
  /\ Len(upstream.visits) = 3
  /\ upstream.visits[1].shipmentIndex # undefined
  /\ upstream.visits[2].shipmentIndex = undefined
  /\ upstream.visits[3].shipmentIndex # undefined
  /\ Len(response.result.optimizedDeliveries) = 2

\* The first route lists one visit per shipment, in reverse input order:
\* shipmentIndex N-1 down to 0.
VisitsInReverseOrder ==
  LET N == Len(body.deliveries)
  IN /\ Len(upstream.visits) = N
     /\ \A k \in 1..N : upstream.visits[k].shipmentIndex = N - k

\* C16: when the upstream route lists one visit per shipment in reverse
\* input order, the handler returns all N stops in exactly that reverse
\* order, each with its original fields (codigo, lat, lng) unchanged.
C16_ReverseRoundTrip ==
  (OptimizeSucceeded /\ VisitsInReverseOrder) =>
    LET out == response.result.optimizedDeliveries
        N == Len(body.deliveries)
    IN /\ Len(out) = N
       /\ \A k \in 1..N :
            Delivery(out[k].codigo, out[k]) = body.deliveries[N - k + 1]

\* C16 witness: two stops at different coordinates returned in reverse.
C16_Witness ==
  /\ OptimizeSucceeded
  /\ VisitsInReverseOrder
  /\ Len(body.deliveries) = 2
  /\ Loc(body.deliveries[1].lat, body.deliveries[1].lng)
       # Loc(body.deliveries[2].lat, body.deliveries[2].lng)
  /\ response.result.optimizedDeliveries[1].codigo = 2

\* The optimization request has been sent.
OptimizeSent == Len(netLog) = 2 /\ netLog[2] = "optimize"

\* C17: the shipment model sent upstream has exactly one shipment per input
\* stop, in input order: shipment i carries the coordinates of input stop i;
\* there is a single vehicle, which starts and ends at the depot location.
C17_OneShipmentPerStop ==
  OptimizeSent =>
    /\ Len(payload.shipments) = Len(body.deliveries)
    /\ \A i \in 1..Len(body.deliveries) :
         /\ payload.shipments[i].latitude = body.deliveries[i].lat
         /\ payload.shipments[i].longitude = body.deliveries[i].lng
    /\ Len(payload.vehicles) = 1
    /\ payload.vehicles[1].startWaypoint = body.warehouseLocation
    /\ payload.vehicles[1].endWaypoint = body.warehouseLocation

\* C17 witness: a request of two stops at different coordinates, with a
\* depot whose latitude and longitude differ, was sent upstream.
C17_Witness ==
  /\ OptimizeSent
  /\ Len(body.deliveries) = 2
  /\ body.deliveries[1].lng # body.deliveries[2].lng
  /\ body.deliveries[1].lat # body.deliveries[1].lng
  /\ body.warehouseLocation.lat # body.warehouseLocation.lng

\* The whole seconds since 1970-01-01T00:00:00Z a timestamp denotes.
SecondsOf(ts) == ((ts.day * 24 + ts.hour) * 60 + ts.minute) * 60 + ts.second

\* A timestamp with date, hour, minute and second and nothing below.
IsWholeSecondTimestamp(ts) ==
  /\ DOMAIN ts = {"day", "hour", "minute", "second"}
  /\ ts.day >= 0
  /\ ts.hour \in 0..23
  /\ ts.minute \in 0..59
  /\ ts.second \in 0..59

\* The instant the windows start from: the request's startTime, or the
\* current time when the request has none.
RequestedStart == IF body.startTime # undefined THEN body.startTime ELSE clock

\* [start, end] is the requested start cut to the whole second and that
\* instant plus 8 hours (28800 s).
IsWindowOfRequest(start, end) ==
  /\ IsWholeSecondTimestamp(start)
  /\ IsWholeSecondTimestamp(end)
  /\ 1000 * SecondsOf(start) <= RequestedStart
  /\ RequestedStart < 1000 * SecondsOf(start) + 1000
  /\ SecondsOf(end) - SecondsOf(start) = 8 * 3600

\* C18: every time window and the global start and end of the shipment
\* model are [startTime, startTime + 8 hours], startTime being the request's
\* startTime, or the current time when absent, cut to the whole second;
\* both timestamps have no sub-second component and are exactly 8 hours
\* apart.
C18_WindowIsEightHours ==
  OptimizeSent =>
    /\ IsWindowOfRequest(payload.globalStartTime, payload.globalEndTime)
    /\ \A i \in 1..Len(payload.shipments) :
         /\ Len(payload.shipments[i].timeWindows) = 1
         /\ IsWindowOfRequest(payload.shipments[i].timeWindows[1].startTime,
                              payload.shipments[i].timeWindows[1].endTime)

\* C18 witness: the window starts at the current time, read with a
\* fraction of a second of at least one half, and ends on the same day.
C18_Witness ==
  /\ OptimizeSent
  /\ body.startTime = undefined
  /\ clock % 1000 >= 500
  /\ payload.globalEndTime.day = payload.globalStartTime.day

\* C18, second witness: the window starts at the request's startTime, which
\* has a fraction of a second, and ends on the next day.
C18_WitnessNextDay ==
  /\ OptimizeSent
  /\ body.startTime # undefined
  /\ body.startTime % 1000 > 0
  /\ payload.globalEndTime.day = payload.globalStartTime.day + 1

\* The token endpoint has answered with a non-success status.
TokenFailed == tokenReply # NoReply /\ ~ResponseOk(tokenReply.status)

\* C19: when the token endpoint answers with a non-success status, the
\* request fails with an error that carries the status and the body of that
\* answer unmodified, exactly one token request was sent, and no
\* optimization request is issued.
C19_TokenErrorCarriesReply ==
  (OptimizeDone /\ TokenFailed) =>
    /\ response.status >= 400
    /\ response.details.status = tokenReply.status
    /\ response.details.body = tokenReply.body.text
    /\ netLog = <<"token">>

\* The optimization endpoint has answered with a non-success status.
UpstreamFailed == upstream # NoUpstream /\ ~ResponseOk(upstream.status)

\* C20: when the optimization endpoint answers with a non-success status,
\* the handler returns an error with that same status and the body of that
\* answer verbatim, and exactly one optimization request was sent.
C20_UpstreamErrorCarriesReply ==
  (OptimizeDone /\ UpstreamFailed) =>
    /\ response.status = upstream.status
    /\ response.details = upstream.body
    /\ netLog = <<"token", "optimize">>

\* C21: when the optimization endpoint answers with success but with no
\* routes (routes absent or empty), the handler returns an error and never
\* a successful route.
C21_NoRoutesIsError ==
  (/\ OptimizeDone
   /\ upstream # NoUpstream
   /\ ResponseOk(upstream.status)
   /\ upstream.routes \in {"absent", "empty"})
  => /\ response.status >= 400
     /\ "result" \notin DOMAIN response
     /\ "error" \in DOMAIN response

\* C21 witness: the endpoint answered 200 with an empty list of routes.
C21_Witness ==
  /\ OptimizeDone
  /\ upstream # NoUpstream
  /\ upstream.status = 200
  /\ upstream.routes = "empty"

\* The project id is unset, or the service-account credential is unset, is
\* not JSON, or lacks client_email or private_key.
ConfigurationMissing ==
  \/ ~env.GOOGLE_CLOUD_PROJECT_ID
  \/ env.GOOGLE_SERVICE_ACCOUNT_CREDENTIALS
       \in {"unset", "invalidJson", "missingFields"}

\* C22: with the configuration missing, a request aborts with an error and
\* no network call has been issued.
C22_ConfigurationErrorBeforeNetwork ==
  (pc # "idle" /\ ConfigurationMissing) =>
    /\ pc = "done"
    /\ response.status = 500
    /\ netLog = <<>>

\* C22 witness: a request was made with a project id and a credential that
\* is JSON without private_key.
C22_Witness ==
  /\ pc = "done"
  /\ env.GOOGLE_CLOUD_PROJECT_ID
  /\ env.GOOGLE_SERVICE_ACCOUNT_CREDENTIALS = "missingFields"
  /\ Len(body.deliveries) > 0

\* The configuration is complete but the private key cannot sign.
KeyUnusable ==
  /\ env.GOOGLE_CLOUD_PROJECT_ID
  /\ env.GOOGLE_SERVICE_ACCOUNT_CREDENTIALS = "badKey"

\* C23: when signing the assertion fails, the request fails: signing was
\* attempted once, no token request and no optimization request is issued,
\* and the failure is reported to the caller.
C23_SigningFailureIsFatal ==
  (pc # "idle" /\ KeyUnusable) =>
    /\ pc = "done"
    /\ signAttempts = 1
    /\ netLog = <<>>
    /\ response.status = 500
    /\ response.details = "sign"

\* C23 witness: a request with the unusable key has been answered.
C23_Witness ==
  /\ pc = "done"
  /\ KeyUnusable
  /\ signAttempts = 1
  /\ Len(body.deliveries) > 0

-----------------------------------------------------------------------------
(* Properties of repeated requests to /api/optimize-simple, under SpecRepeat *)

-----------------------------------------------------------------------------
(* Properties of POST /api/geocode, checked under SpecGeocode *)

GeocodeSucceeded == geo.pc = "done" /\ geo.response.status = 200

\* The positions of the addresses that are looked up.
LookedUp ==
  { i \in 1..Len(geo.addresses) :
      geo.addresses[i].kind = "string" /\ geo.addresses[i].trimmed # "" }

\* C25: all lookups are dispatched before any of them is answered, and for
\* every completion order the results have one entry per input address,
\* results[i] being the outcome for addresses[i]; the caller, which merges
\* results[i] into delivery i, gets for delivery i the coordinates found
\* for address i.
C25_ResultsInInputOrder ==
  /\ geo.pc = "awaiting" =>
       { geo.dispatched[k] : k \in 1..Len(geo.dispatched) } = LookedUp
  /\ GeocodeSucceeded =>
       LET n == Len(geo.addresses)
           results == geo.response.results
           merged == deliveriesWithCoords(n, results)
       IN /\ Len(results) = n
          /\ \A i \in 1..n :
               /\ results[i].address = geo.addresses[i]
               /\ (/\ i \in LookedUp
                   /\ geo.outcomes[i] # Pending
                   /\ geo.outcomes[i].kind = "ok")
                    => /\ results[i].lat = geo.outcomes[i].lat
                       /\ results[i].lng = geo.outcomes[i].lng
                       /\ merged[i].lat = geo.outcomes[i].lat
                       /\ merged[i].lng = geo.outcomes[i].lng
               /\ (/\ i \in LookedUp
                   /\ geo.outcomes[i] # Pending
                   /\ geo.outcomes[i].kind # "ok")
                    => merged[i].lat = 0 /\ merged[i].lng = 0

\* C25 witness: two different addresses, both found at different
\* coordinates, the second lookup answered before the first.
C25_Witness ==
  /\ GeocodeSucceeded
  /\ geo.completed = <<2, 1>>
  /\ geo.addresses[1] # geo.addresses[2]
  /\ geo.outcomes[1].kind = "ok"
  /\ geo.outcomes[2].kind = "ok"
  /\ geo.outcomes[1].lat # geo.outcomes[2].lat

\* The lookup of address i failed: the address is not valid, or the fetch
\* ended in an HTTP error, a status other than OK, or an exception.
LookupFailed(i) ==
  \/ i \notin LookedUp
  \/ geo.outcomes[i] # Pending /\ geo.outcomes[i].kind # "ok"

\* C30: a failed lookup never fails the batch: a request with a non-empty
\* array of addresses is answered with the results; a failed lookup has at
\* its position an entry with an error and the coordinates (0,0); total is
\* the number of addresses and equals successful + failed, and failed is
\* the number of entries that carry an error.
C30_FailedLookupNeverFailsBatch ==
  (geo.pc = "done" /\ Len(geo.addresses) > 0) =>
    /\ geo.response.status = 200
    /\ LET n == Len(geo.addresses)
           results == geo.response.results
           summary == geo.response.summary
       IN /\ \A i \in 1..n :
               LookupFailed(i) => /\ ~FalsyString(results[i].error)
                                  /\ results[i].lat = 0
                                  /\ results[i].lng = 0
          /\ summary.total = n
          /\ summary.total = summary.successful + summary.failed
          /\ summary.failed
               = Cardinality({ i \in 1..n : results[i].error # Absent })

-----------------------------------------------------------------------------
(* Properties of concurrent requests, checked under SpecConcurrent *)

\* The nearest-neighbor handler run to its end without interruption.
RECURSIVE RunSimple(_)
RunSimple(q) ==
  IF q.pc = "done" THEN q
  ELSE IF Len(q.unvisited) > 0 THEN RunSimple(SimpleIterated(q))
  ELSE SimpleFinished(q)

\* The response a finished request gets when it runs alone with the same
\* body and the same answers of the two endpoints.
ResponseAlone(q) ==
  IF q.kind = "simple" THEN RunSimple(SimpleStarted(env, q.body)).response
  ELSE LET q0 == OptimizeStarted(env, q.body)
       IN IF q0.pc = "done" THEN q0.response
          ELSE LET q1 == OptimizeTokenAnswered(q0, q.tokenReply,
                                               q.tokenReply.access_token)
               IN IF q1.pc = "done" THEN q1.response
                  ELSE OptimizeUpstreamAnswered(q1, q.upstream).response

C24_WitnessMixed ==
  /\ requests[1].kind = "simple"
  /\ requests[1].pc = "loop"
  /\ Len(requests[1].optimized) = 1
  /\ requests[2].pc = "awaitToken"

-----------------------------------------------------------------------------
(* Properties of generateCompleteRouteLink, checked under SpecLink *)

LinkReturned == link.pc = "returned"

\* The stops a URL leads through after its origin: the waypoints, then the
\* destination.
StopsOfUrl(url) == Append(url.waypoints, url.destination)

RECURSIVE StopsOfUrls(_)
StopsOfUrls(urls) ==
  IF urls = <<>> THEN <<>>
  ELSE StopsOfUrl(Head(urls)) \o StopsOfUrls(Tail(urls))

\* C29: at most 9 waypoints give a single URL; n > 9 waypoints give an
\* array of ceil(n/9) URLs whose stops, in order, are the waypoint sequence
\* (each waypoint once, as an intermediate waypoint or a destination, at
\* most 9 per URL); the first URL starts at the warehouse and each later
\* URL at the destination of the one before.
C29_LinksPartitionWaypoints ==
  LinkReturned =>
    LET n == Len(link.waypoints)
        urls == link.result.urls
    IN /\ n <= 9 => (~link.result.isArray /\ Len(urls) = 1)
       /\ n > 9 =>
            /\ link.result.isArray
            /\ Len(urls) = (n + 8) \div 9
            /\ StopsOfUrls(urls)
                 = [k \in 1..n |-> <<link.waypoints[k].lat,
                                      link.waypoints[k].lng>>]
            /\ \A u \in 1..Len(urls) : Len(StopsOfUrl(urls[u])) <= 9
            /\ Len(urls) >= 1
                 => urls[1].origin = <<link.origin.lat, link.origin.lng>>
            /\ \A u \in 2..Len(urls) :
                 urls[u].origin = urls[u - 1].destination

\* C29 witness: 19 waypoints that all differ were split into three URLs,
\* the last with a destination only.
C29_Witness ==
  /\ LinkReturned
  /\ Len(link.waypoints) = 19
  /\ \A j, k \in 1..19 : j # k => link.waypoints[j] # link.waypoints[k]
  /\ link.result.isArray
  /\ Len(link.result.urls) = 3
  /\ link.result.urls[3].waypoints = <<>>
  /\ link.result.urls[2].origin = link.result.urls[1].destination

\* C29 witness: nine waypoints gave a single URL.
C29_WitnessSingle ==
  /\ LinkReturned
  /\ Len(link.waypoints) = 9
  /\ ~link.result.isArray
  /\ Len(link.result.urls[1].waypoints) = 8

====
